---- MODULE Spec2Model ----
(***************************************************************************)
(* wicked2nm: the migration run of src/src/reader.rs (read) and            *)
(* src/src/migrate.rs (migrate, update_parent_connection,                  *)
(* create_lo_connection) as a state machine.                               *)
(*                                                                         *)
(* Strings are modelled as TLA+ strings, Option<T> as a sequence of length *)
(* 0 (None) or 1 (Some), Vec<T> as a sequence, HashMap<K, V> as a function *)
(* whose DOMAIN is the key set.  A `for` loop over a HashMap takes its     *)
(* entries in any order: the outcomes of every order are drawn with \E.    *)
(* Uuid::new_v4() is modelled by a fresh natural number.                   *)
(*                                                                         *)
(* Spec runs read() as one step and migrate() stage by stage.  ReaderSpec  *)
(* runs read() document by document; there the strings that the code       *)
(* splits, parses and compares are sequences of bytes.                     *)
(***************************************************************************)
EXTENDS Integers, Sequences, FiniteSets, TLC

\* ---------------------------------------------------------------- bounds
\* Largest number of interfaces the input documents hold.
MaxIfc == 2
\* Largest number of connections the mapper returns for one interface.
MaxCons == 2

\* Interface names of the input documents; "lo" is the loopback name.
Names == {"a", "b"}
ParsedNames == Names \cup {"lo"}
\* link.master of an interface: None, or the name of an interface.
Masters == {<<>>, <<"a">>, <<"b">>}

None == <<>>
Some(x) == <<x>>

VARIABLES
    paths,              \* read_files: the input documents, in the order they are read
    next_path,          \* read_files: the index in paths of the next document
    continue_migration, \* MIGRATION_SETTINGS.continue_migration
    dry_run,            \* MIGRATION_SETTINGS.dry_run
    pc,                 \* position of the run
    interfaces,         \* InterfacesResult.interfaces / the rest of migrate's loop
    netconfig,          \* Option<Netconfig>
    read_warning,       \* InterfacesResult.warning is Some
    parents,            \* migrate: parents
    connections,        \* migrate: connections
    origin,             \* origin[i]: link.master of the interface connections[i] came from
    state,              \* Option<NetworkState>: None until line 103, then Some(connections)
    nm,                 \* the adapter: [created, reads, writes]
    loopback,           \* migrate: Option of the local `loopback`
    live_lo,            \* Option of the "lo" connection of the state nm.read returned
    static_dns,         \* Option of the Result of netconfig.static_dns_servers()
    failed,             \* the read or adapter call that last returned Err, or ""
    warned,             \* log::warn! has been called
    result,             \* "running", "ok", "err" or "panic"
    err                 \* the stage and the name the error message carries

vars == <<paths, next_path, continue_migration, dry_run, pc, interfaces, netconfig, read_warning,
          parents, connections, origin, state, nm, loopback,
          live_lo, static_dns, failed, warned, result, err>>

NoErr == [stage |-> "", who |-> ""]

\* ------------------------------------------------------------ data model
RECURSIVE RetainNotLo_UpToLo(_)
\* RetainNotLo that stops at the first "lo": what follows it is dropped too.
RetainNotLo_UpToLo(s) ==
    IF s = <<>> THEN <<>>
    ELSE IF Head(s).name # "lo" THEN <<Head(s)>> \o RetainNotLo_UpToLo(Tail(s))
    ELSE <<>>

RECURSIVE RetainNotLo(_)
\* Vec::retain(|interface| interface.name != "lo"): the kept elements, in order.
RetainNotLo(s) ==
    IF s = <<>> THEN <<>>
    ELSE IF Head(s).name # "lo" THEN <<Head(s)>> \o RetainNotLo(Tail(s))
    ELSE RetainNotLo(Tail(s))

\* The raw interfaces a document can hold.
RawInterfaces == [name : ParsedNames, master : Masters]

RECURSIVE SeqsUpTo(_, _)
SeqsUpTo(S, n) ==
    IF n = 0 THEN {<<>>}
    ELSE LET prev == SeqsUpTo(S, n - 1)
         IN  prev \cup {Append(s, x) : s \in {t \in prev : Len(t) = n - 1}, x \in S}

\* Connection { ..Default::default() } with the given id, uuid and interface.
NewConnection(id, uuid, interface) ==
    [id |-> id, uuid |-> uuid, interface |-> interface, controller |-> None,
     config |-> "Ethernet", method4 |-> "Disabled", method6 |-> "Disabled",
     addresses |-> <<>>, nameservers |-> <<>>, dns_searchlist |-> <<>>,
     dns_priority4 |-> None, dns_priority6 |-> None, ignore_auto_dns |-> FALSE]

\* HashMap::insert and the removal of the entry an iteration consumes.
Insert(f, k, v) == [x \in (DOMAIN f) \cup {k} |-> IF x = k THEN v ELSE f[x]]
Remove(f, k) == [x \in (DOMAIN f) \ {k} |-> f[x]]
EmptyMap == [x \in {} |-> x]

\* connections.iter().find(|c| c.interface.as_deref() == Some(name)): the index
\* of the first such connection, as an Option.
FindByInterface(conns, name) ==
    LET hits == {i \in 1..Len(conns) : conns[i].interface = Some(name)}
    IN  IF hits = {} THEN None
        ELSE Some(CHOOSE i \in hits : \A j \in hits : i <= j)

\* ---------------------------------------------------------------- Init
Init ==
    /\ paths = <<>>
    /\ next_path = 1
    /\ continue_migration \in BOOLEAN
    /\ dry_run \in BOOLEAN
    /\ pc = "read"
    /\ interfaces = <<>>
    /\ netconfig = None
    /\ read_warning = FALSE
    /\ parents = EmptyMap
    /\ connections = <<>>
    /\ origin = <<>>
    /\ state = None
    /\ nm = [created |-> FALSE, reads |-> 0, writes |-> 0]
    /\ loopback = None
    /\ live_lo = None
    /\ static_dns = None
    /\ failed = ""
    /\ warned = FALSE
    /\ result = "running"
    /\ err = NoErr

\* A `return Err(..)` (or `?`, or bail!) of the run: the message names `who`.
Fail(stage, who) ==
    /\ pc' = "done"
    /\ result' = "err"
    /\ err' = [stage |-> stage, who |-> who]

\* AfterMap with update_parent_connection called inside the loop.
AfterMap_InLoop(rest) == "resolve"

\* The position when the mapping loop has `rest` left.
AfterMap(rest) == IF rest # <<>> THEN "map" ELSE "resolve"

\* ---------------------------------------------------------------- read
\* reader.rs read(): the documents are read and parsed, the netconfig and
\* netconfig_dhcp policies are read when with_netconfig is set, and the
\* loopback interface is dropped.
\*   docs_ok        read_files / deserialize_xml returned Ok
\*   parsed         the interfaces of all documents, in order
\*   xml_warning    some document had an unhandled field
\*   with_netconfig MIGRATION_SETTINGS.with_netconfig
\*   nc             read_netconfig: "err", "none" (Ok(None)), "some" or
\*                  "some_warn" (Ok(Some) with warnings)
\*   dhcp_ok        read_netconfig_dhcp returned Ok
Read ==
    /\ pc = "read"
    /\ \E docs_ok \in BOOLEAN, parsed \in SeqsUpTo(RawInterfaces, MaxIfc),
          xml_warning \in BOOLEAN, with_netconfig \in BOOLEAN,
          nc \in {"err", "none", "some", "some_warn"}, dhcp_ok \in BOOLEAN :
        IF ~docs_ok THEN
            /\ Fail("read_document", "document")
            /\ failed' = "document"
            /\ UNCHANGED <<interfaces, netconfig, read_warning, warned>>
        ELSE IF with_netconfig /\ nc = "err" THEN
            /\ Fail("read_netconfig", "netconfig")
            /\ failed' = "netconfig"
            /\ UNCHANGED <<interfaces, netconfig, read_warning, warned>>
        ELSE IF with_netconfig /\ nc = "some_warn" /\ ~continue_migration THEN
            /\ Fail("netconfig_warning", "netconfig")
            /\ warned' = TRUE
            /\ UNCHANGED <<interfaces, netconfig, read_warning, failed>>
        ELSE IF with_netconfig /\ ~dhcp_ok /\ ~continue_migration THEN
            /\ Fail("read_netconfig_dhcp", "netconfig_dhcp")
            /\ failed' = "netconfig_dhcp"
            /\ UNCHANGED <<interfaces, netconfig, read_warning, warned>>
        ELSE
            /\ interfaces' = RetainNotLo(parsed)
            /\ read_warning' = xml_warning
            /\ failed' = IF with_netconfig /\ ~dhcp_ok THEN "netconfig_dhcp" ELSE failed
            /\ netconfig' = IF with_netconfig /\ nc \in {"some", "some_warn"}
                            THEN Some("netconfig") ELSE None
            /\ warned' = (\/ warned
                          \/ xml_warning
                          \/ with_netconfig /\ (nc = "some_warn" \/ ~dhcp_ok))
            /\ pc' = "main"
            /\ UNCHANGED <<result, err>>
    /\ UNCHANGED <<paths, next_path, static_dns, continue_migration, dry_run, parents, connections,
                   origin, state, nm, loopback, live_lo>>

\* The caller of read(): a warning of the reader ends the run unless
\* continue_migration is set; otherwise migrate is called.
MainCheck ==
    /\ pc = "main"
    /\ IF read_warning /\ ~continue_migration THEN
            /\ Fail("unhandled_fields", "")
            /\ UNCHANGED read_warning
       ELSE /\ pc' = AfterMap(interfaces)
            /\ read_warning' = FALSE
            /\ UNCHANGED <<result, err>>
    /\ UNCHANGED <<paths, next_path, failed, static_dns,
                   continue_migration, dry_run, interfaces, netconfig, parents,
                   connections, origin, state, nm, loopback, live_lo,
                   warned>>

\* ----------------------------------------------------------------- map
\* Interface::to_connection: the connections of one interface. Their ids are
\* derived from the interface name: one connection named like the interface,
\* or n connections "<name>-<i>"; each carries the interface name and a fresh
\* uuid (the uuids after `base`).
SingleConnection(interface, base) ==
    <<NewConnection(interface.name, base + 1, Some(interface.name))>>

IndexedConnections(interface, base, n) ==
    [i \in 1..n |-> NewConnection(interface.name \o "-" \o ToString(i - 1),
                                  base + i, Some(interface.name))]

\* ConnectionResult: Err, or the connections and whether warnings came along.
ToConnection(interface, base) ==
    {[ok |-> FALSE, connections |-> <<>>, warnings |-> FALSE]}
    \cup
    [ok : {TRUE},
     connections : {SingleConnection(interface, base)}
                   \cup {IndexedConnections(interface, base, n) : n \in 0..MaxCons},
     warnings : BOOLEAN]

\* migrate, lines 93-98: every connection of the interface is pushed, and
\* recorded in parents under its id when the interface has a master.
PushParents(par, interface, cons) ==
    IF interface.master = None THEN par
    ELSE [x \in (DOMAIN par) \cup {cons[i].id : i \in 1..Len(cons)} |->
             IF x \in {cons[i].id : i \in 1..Len(cons)}
             THEN interface.master[1] ELSE par[x]]

\* One iteration of the loop of migrate, lines 78-99.
MapInterface ==
    /\ pc = "map"
    /\ interfaces # <<>>
    /\ LET interface == Head(interfaces) IN
       \E cr \in ToConnection(interface, Len(connections)) :
         IF ~cr.ok THEN
            /\ Fail("map_error", interface.name)
            /\ UNCHANGED <<interfaces, parents, connections, origin, warned>>
         ELSE IF cr.warnings /\ ~continue_migration THEN
            /\ warned' = TRUE
            /\ IF cr.connections = <<>>
               THEN \* connection_result.connections[0] is out of bounds
                    /\ pc' = "done"
                    /\ result' = "panic"
                    /\ err' = [stage |-> "map_warning", who |-> ""]
               ELSE Fail("map_warning", cr.connections[1].id)
            /\ UNCHANGED <<interfaces, parents, connections, origin>>
         ELSE
            /\ warned' = (warned \/ cr.warnings)
            /\ interfaces' = Tail(interfaces)
            /\ connections' = connections \o cr.connections
            /\ origin' = origin \o [i \in 1..Len(cr.connections) |-> interface]
            /\ parents' = PushParents(parents, interface, cr.connections)
            /\ pc' = AfterMap(interfaces')
            /\ UNCHANGED <<result, err>>
    /\ UNCHANGED <<paths, next_path, failed, static_dns,
                   continue_migration, dry_run, netconfig, read_warning,
                   state, nm, loopback, live_lo>>

\* ------------------------------------------------------------- resolve
\* update_parent_connection, lines 19-31, the first pass: the ids whose
\* parent no connection carries as its interface ...
MissingParents(conns, par) ==
    {id \in DOMAIN par : FindByInterface(conns, par[id]) = None}

\* ... and parent_uuid: every other id, with the uuid of the first connection
\* whose interface is the parent.
ParentUuid(conns, par) ==
    [id \in (DOMAIN par) \ MissingParents(conns, par) |->
        conns[FindByInterface(conns, par[id])[1]].uuid]

\* update_parent_connection, lines 34-38: the connection an entry of
\* parent_uuid is written to.
FindChild(conns, id) == FindByInterface(conns, id)

\* The entries of parent_uuid for which the second pass finds no connection.
Unexpected(conns, puuid) ==
    {id \in DOMAIN puuid : FindChild(conns, id) = None}

\* update_parent_connection, line 38, for the entries `done` of parent_uuid.
\* Two entries never write to the same connection (each writes to the first
\* connection whose interface is its id), so their order does not matter.
SetControllers(conns, puuid, done) ==
    [i \in 1..Len(conns) |->
        IF \E id \in done : FindChild(conns, id) = Some(i)
        THEN [conns[i] EXCEPT !.controller =
                Some(puuid[CHOOSE id \in done : FindChild(conns, id) = Some(i)])]
        ELSE conns[i]]

\* update_parent_connection, lines 12-48, called at migrate line 101. Both
\* loops run over a HashMap, in any order. The first pass changes nothing but
\* parent_uuid, so its order only decides which missing parent the error
\* names. The second pass stops at the first entry without a connection: the
\* entries written before it are any set of the entries that have one.
UpdateParentConnection ==
    /\ pc = "resolve"
    /\ LET missing == MissingParents(connections, parents)
           puuid == ParentUuid(connections, parents)
           unexpected == Unexpected(connections, puuid)
       IN  IF missing # {} /\ ~continue_migration THEN
              /\ \E id \in missing : Fail("missing_parent", id)
              /\ warned' = TRUE
              /\ UNCHANGED connections
           ELSE IF unexpected # {} THEN
              /\ \E id \in unexpected, done \in SUBSET ((DOMAIN puuid) \ unexpected) :
                    /\ connections' = SetControllers(connections, puuid, done)
                    /\ Fail("missing_connection", id)
              /\ warned' = (warned \/ missing # {})
           ELSE
              /\ connections' = SetControllers(connections, puuid, DOMAIN puuid)
              /\ warned' = (warned \/ missing # {})
              /\ pc' = "assemble"
              /\ UNCHANGED <<result, err>>
    /\ UNCHANGED <<paths, next_path, failed, static_dns,
                   continue_migration, dry_run, interfaces, netconfig, read_warning,
                   parents, origin, state, nm, loopback, live_lo>>

\* ------------------------------------------------------------ assemble
\* NetworkState::get_connection(id): the first connection with that id.
GetConnection(conns, id) ==
    LET hits == {i \in 1..Len(conns) : conns[i].id = id}
    IN  IF hits = {} THEN None
        ELSE Some(conns[CHOOSE i \in hits : \A j \in hits : i <= j])

\* NetworkState::add_connection: an error when the id is taken, else a push.
AddConnection(conns, conn) ==
    IF GetConnection(conns, conn.id) # None
    THEN [ok |-> FALSE, connections |-> conns, id |-> conn.id]
    ELSE [ok |-> TRUE, connections |-> Append(conns, conn), id |-> conn.id]

RECURSIVE AddAll(_, _)
\* migrate, lines 104-106: add_connection(..)? for each connection, in order.
AddAll(conns, todo) ==
    IF todo = <<>> THEN [ok |-> TRUE, connections |-> conns, id |-> ""]
    ELSE LET r == AddConnection(conns, Head(todo))
         IN  IF r.ok THEN AddAll(r.connections, Tail(todo)) ELSE r

\* Assemble with the result of add_connection ignored.
Assemble_ErrorIgnored ==
    /\ pc = "assemble"
    /\ state' = Some(AddAll(<<>>, connections).connections)
    /\ pc' = "finalize"
    /\ UNCHANGED <<paths, next_path, failed, static_dns,
                   continue_migration, dry_run, interfaces, netconfig, read_warning,
                   parents, connections, origin, nm, loopback, live_lo, warned,
                   result, err>>

\* migrate, lines 103-106: a new NetworkState takes every connection.
Assemble ==
    /\ pc = "assemble"
    /\ LET r == AddAll(<<>>, connections)
       IN  /\ state' = Some(r.connections)
           /\ IF r.ok
              THEN pc' = "finalize" /\ UNCHANGED <<result, err>>
              ELSE Fail("add_connection", r.id)
    /\ UNCHANGED <<paths, next_path, failed, static_dns,
                   continue_migration, dry_run, interfaces, netconfig, read_warning,
                   parents, connections, origin, nm, loopback,
                   live_lo, warned>>

\* ------------------------------------------------------------ finalize
\* DryRun with the dry_run test moved behind the creation of the adapter.
DryRun_AfterAdapter ==
    /\ pc = "finalize"
    /\ dry_run
    /\ pc' = "done"
    /\ result' = "ok"
    /\ nm' = [nm EXCEPT !.created = TRUE]
    /\ UNCHANGED <<paths, next_path, failed, static_dns,
                   continue_migration, dry_run, interfaces, netconfig, read_warning,
                   parents, connections, origin, state, loopback, live_lo, warned,
                   err>>

\* migrate, lines 108-113: a dry run logs the state and returns Ok.
DryRun ==
    /\ pc = "finalize"
    /\ dry_run
    /\ pc' = "done"
    /\ result' = "ok"
    /\ UNCHANGED <<paths, next_path, failed, static_dns,
                   continue_migration, dry_run, interfaces, netconfig, read_warning,
                   parents, connections, origin, state, nm, loopback,
                   live_lo, warned, err>>

\* FromSystem with the error of from_system() dropped instead of returned.
FromSystem_ErrorDropped ==
    /\ pc = "finalize"
    /\ ~dry_run
    /\ \E ok \in BOOLEAN :
         /\ nm' = [nm EXCEPT !.created = ok]
         /\ failed' = IF ok THEN failed ELSE "from_system"
         /\ pc' = IF netconfig # None THEN "read_live" ELSE "write"
         /\ UNCHANGED <<result, err>>
    /\ UNCHANGED <<paths, next_path, static_dns,
                   continue_migration, dry_run, interfaces, netconfig, read_warning,
                   parents, connections, origin, state, loopback, live_lo, warned>>

\* FromSystem without the `if let Some(netconfig)` of line 116: the DNS merge
\* runs in every run.
FromSystem_AlwaysMerges ==
    /\ pc = "finalize"
    /\ ~dry_run
    /\ \E ok \in BOOLEAN :
         IF ok THEN /\ nm' = [nm EXCEPT !.created = TRUE]
                    /\ UNCHANGED failed
                    /\ pc' = "read_live"
                    /\ UNCHANGED <<result, err>>
         ELSE /\ Fail("from_system", "")
              /\ failed' = "from_system"
              /\ UNCHANGED nm
    /\ UNCHANGED <<paths, next_path, static_dns,
                   continue_migration, dry_run, interfaces, netconfig, read_warning,
                   parents, connections, origin, state, loopback,
                   live_lo, warned>>

\* migrate, line 114: NetworkManagerAdapter::from_system().await?
FromSystem ==
    /\ pc = "finalize"
    /\ ~dry_run
    /\ \E ok \in BOOLEAN :
         IF ok THEN /\ nm' = [nm EXCEPT !.created = TRUE]
                    /\ UNCHANGED failed
                    /\ pc' = IF netconfig # None THEN "read_live" ELSE "write"
                    /\ UNCHANGED <<result, err>>
         ELSE /\ Fail("from_system", "")
              /\ failed' = "from_system"
              /\ UNCHANGED nm
    /\ UNCHANGED <<paths, next_path, static_dns,
                   continue_migration, dry_run, interfaces, netconfig, read_warning,
                   parents, connections, origin, state, loopback,
                   live_lo, warned>>

\* ----------------------------------------------------------- DNS merge
\* create_lo_connection with the IPv6 address and method left out.
create_lo_connection_v4only(uuid) ==
    [NewConnection("lo", uuid, Some("lo")) EXCEPT
        !.method4 = "Manual",
        !.addresses = <<"127.0.0.1/8">>,
        !.config = "Loopback"]

\* create_lo_connection, lines 50-67.
create_lo_connection(uuid) ==
    [NewConnection("lo", uuid, Some("lo")) EXCEPT
        !.method4 = "Manual", !.method6 = "Manual",
        !.addresses = <<"127.0.0.1/8", "::1/128">>,
        !.config = "Loopback"]

\* The "lo" connection a live system can hold: it has attributes of its own.
LiveLoopback(uuid) ==
    [NewConnection("lo", uuid, Some("lo")) EXCEPT
        !.method4 = "Manual", !.method6 = "Ignore",
        !.addresses = <<"127.0.0.1/8">>,
        !.nameservers = <<"ns_live">>, !.dns_searchlist = <<"search_live">>,
        !.config = "Loopback"]

\* ReadLive with the error of nm.read taken for a system without a loopback.
ReadLive_ErrorDropped ==
    /\ pc = "read_live"
    /\ nm' = [nm EXCEPT !.reads = @ + 1]
    /\ \E ok \in BOOLEAN, has_lo \in BOOLEAN :
         /\ failed' = IF ok THEN failed ELSE "nm_read"
         /\ live_lo' = IF ok /\ has_lo THEN Some(LiveLoopback(Len(connections) + 2))
                       ELSE None
         /\ loopback' = IF live_lo' # None THEN live_lo'
                        ELSE Some(create_lo_connection(Len(connections) + 1))
         /\ pc' = "loopback"
         /\ UNCHANGED <<result, err>>
    /\ UNCHANGED <<paths, next_path, static_dns,
                   continue_migration, dry_run, interfaces, netconfig, read_warning,
                   parents, connections, origin, state, warned>>

\* ReadLive without the read: the loopback is always a new one.
ReadLive_NoRead ==
    /\ pc = "read_live"
    /\ loopback' = Some(create_lo_connection(Len(connections) + 1))
    /\ pc' = "loopback"
    /\ UNCHANGED <<paths, next_path, failed, static_dns,
                   continue_migration, dry_run, interfaces, netconfig, read_warning,
                   parents, connections, origin, state, nm, live_lo, warned,
                   result, err>>

\* migrate, lines 117-121: the live state is read; the loopback is a clone of
\* its "lo" connection, or a new one.
ReadLive ==
    /\ pc = "read_live"
    /\ nm' = [nm EXCEPT !.reads = @ + 1]
    /\ \E ok \in BOOLEAN, has_lo \in BOOLEAN :
         IF ~ok THEN
            /\ Fail("nm_read", "")
            /\ failed' = "nm_read"
            /\ UNCHANGED <<loopback, live_lo>>
         ELSE
            /\ live_lo' = IF has_lo THEN Some(LiveLoopback(Len(connections) + 2))
                          ELSE None
            /\ loopback' = IF live_lo' # None THEN live_lo'
                           ELSE Some(create_lo_connection(Len(connections) + 1))
            /\ pc' = "loopback"
            /\ UNCHANGED <<result, err, failed>>
    /\ UNCHANGED <<paths, next_path, static_dns,
                   continue_migration, dry_run, interfaces, netconfig, read_warning,
                   parents, connections, origin, state, warned>>

\* Netconfig::static_dns_servers(): Err, or the parsed list.
StaticDnsServers == {[ok |-> FALSE, servers |-> <<>>],
                     [ok |-> TRUE, servers |-> <<"ns_static">>]}
\* Netconfig.static_dns_searchlist: Option<Vec<String>>.
StaticDnsSearchlists == {None, Some(<<"search_static">>)}

\* AddLoopback that leaves the loopback's nameservers alone when the static
\* DNS servers do not parse.
AddLoopback_KeepsNameservers ==
    /\ pc = "loopback"
    /\ \E dns \in StaticDnsServers, searchlist \in StaticDnsSearchlists :
         /\ static_dns' = Some(dns)
         /\ IF ~dns.ok /\ ~continue_migration THEN
              /\ Fail("static_dns", "")
              /\ UNCHANGED <<loopback, state, warned>>
            ELSE
            LET lo1 == IF dns.ok
                       THEN [loopback[1] EXCEPT !.nameservers = dns.servers]
                       ELSE loopback[1]
                lo2 == IF searchlist # None
                       THEN [lo1 EXCEPT !.dns_searchlist = searchlist[1]]
                       ELSE lo1
                r == AddConnection(state[1], lo2)
            IN  /\ warned' = (warned \/ ~dns.ok)
                /\ loopback' = Some(lo2)
                /\ state' = Some(r.connections)
                /\ IF r.ok
                   THEN pc' = "policy" /\ UNCHANGED <<result, err>>
                   ELSE Fail("add_connection", r.id)
    /\ UNCHANGED <<paths, next_path, failed,
                   continue_migration, dry_run, interfaces, netconfig, read_warning,
                   parents, connections, origin, nm, live_lo>>

\* migrate, lines 122-142: the loopback takes the static DNS servers and
\* search list and is added to the state.
AddLoopback ==
    /\ pc = "loopback"
    /\ \E dns \in StaticDnsServers, searchlist \in StaticDnsSearchlists :
         /\ static_dns' = Some(dns)
         /\ IF ~dns.ok /\ ~continue_migration THEN
              /\ Fail("static_dns", "")
              /\ UNCHANGED <<loopback, state, warned>>
            ELSE
            LET lo1 == [loopback[1] EXCEPT !.nameservers = dns.servers]
                lo2 == IF searchlist # None
                       THEN [lo1 EXCEPT !.dns_searchlist = searchlist[1]]
                       ELSE lo1
                r == AddConnection(state[1], lo2)
            IN  /\ warned' = (warned \/ ~dns.ok)
                /\ loopback' = Some(lo2)
                /\ state' = Some(r.connections)
                /\ IF r.ok
                   THEN pc' = "policy" /\ UNCHANGED <<result, err>>
                   ELSE Fail("add_connection", r.id)
    /\ UNCHANGED <<paths, next_path, failed,
                   continue_migration, dry_run, interfaces, netconfig, read_warning,
                   parents, connections, origin, nm, live_lo>>

\* netconfig::apply_dns_policy: the connections the policy's rules match by
\* interface name get a DNS priority for the rule's protocols.
DnsPolicies ==
    {[matched |-> {}, v4 |-> FALSE, v6 |-> FALSE],
     [matched |-> {"a"}, v4 |-> TRUE, v6 |-> FALSE],
     [matched |-> {"b"}, v4 |-> FALSE, v6 |-> TRUE],
     [matched |-> Names, v4 |-> TRUE, v6 |-> TRUE]}

ApplyPolicy(conns, policy) ==
    [i \in 1..Len(conns) |->
        IF conns[i].id # "lo" /\ conns[i].interface # None
           /\ conns[i].interface[1] \in policy.matched
        THEN [conns[i] EXCEPT
                !.dns_priority4 = IF policy.v4 THEN Some("priority") ELSE @,
                !.dns_priority6 = IF policy.v6 THEN Some("priority") ELSE @]
        ELSE conns[i]]

\* migrate, line 144: apply_dns_policy(&netconfig, &mut state)?
ApplyDnsPolicy ==
    /\ pc = "policy"
    /\ \E ok \in BOOLEAN, policy \in DnsPolicies :
         IF ok THEN /\ state' = Some(ApplyPolicy(state[1], policy))
                    /\ pc' = "default_dns"
                    /\ UNCHANGED <<result, err>>
         ELSE /\ Fail("dns_policy", "")
              /\ UNCHANGED state
    /\ UNCHANGED <<paths, next_path, failed, static_dns,
                   continue_migration, dry_run, interfaces, netconfig, read_warning,
                   parents, connections, origin, nm, loopback,
                   live_lo, warned>>

\* IgnoreAutoDns with || for the && between the two priorities.
IgnoreAutoDns_EitherUnset(conns) ==
    [i \in 1..Len(conns) |->
        IF /\ conns[i].id # "lo"
           /\ (conns[i].dns_priority4 = None \/ conns[i].dns_priority6 = None)
        THEN [conns[i] EXCEPT !.ignore_auto_dns = TRUE]
        ELSE conns[i]]

\* migrate, lines 148-155: a connection other than "lo" without a DNS priority
\* ignores the automatic DNS servers.
IgnoreAutoDns(conns) ==
    [i \in 1..Len(conns) |->
        IF /\ conns[i].id # "lo"
           /\ conns[i].dns_priority4 = None
           /\ conns[i].dns_priority6 = None
        THEN [conns[i] EXCEPT !.ignore_auto_dns = TRUE]
        ELSE conns[i]]

DefaultIgnoreAutoDns ==
    /\ pc = "default_dns"
    /\ state' = Some(IgnoreAutoDns(state[1]))
    /\ pc' = "write"
    /\ UNCHANGED <<paths, next_path, failed, static_dns,
                   continue_migration, dry_run, interfaces, netconfig, read_warning,
                   parents, connections, origin, nm, loopback,
                   live_lo, warned, result, err>>

\* --------------------------------------------------------------- write
\* migrate, lines 158-159: nm.write(&state).await?; Ok(())
Write ==
    /\ pc = "write"
    /\ nm' = [nm EXCEPT !.writes = @ + 1]
    /\ \E ok \in BOOLEAN :
         IF ok THEN pc' = "done" /\ result' = "ok" /\ UNCHANGED <<err, failed>>
         ELSE Fail("nm_write", "") /\ failed' = "nm_write"
    /\ UNCHANGED <<paths, next_path, static_dns,
                   continue_migration, dry_run, interfaces, netconfig, read_warning,
                   parents, connections, origin, state, loopback,
                   live_lo, warned>>

\* ---------------------------------------------------------------- spec
Next ==
    \/ Read
    \/ MainCheck
    \/ MapInterface
    \/ UpdateParentConnection
    \/ Assemble
    \/ DryRun
    \/ FromSystem
    \/ ReadLive
    \/ AddLoopback
    \/ ApplyDnsPolicy
    \/ DefaultIgnoreAutoDns
    \/ Write

Spec == Init /\ [][Next]_vars

\* ---------------------------------------------------------------------
\* The reader (reader.rs). Spec takes read() as the one step Read; ReaderSpec
\* below runs it document by document. A Rust string is the sequence of its
\* bytes, so that split_once, parse and the byte order of the binary search
\* are computed as the code computes them.
\* ----------------------------------------------------------- strings
\* The bytes of '.' and of '0'.
Dot == 46
Zero == 48

\* <str as Ord>::cmp: the order of the bytes, a proper prefix first.
RECURSIVE Cmp(_, _)
Cmp(x, y) ==
    IF x = <<>> /\ y = <<>> THEN "Equal"
    ELSE IF x = <<>> THEN "Less"
    ELSE IF y = <<>> THEN "Greater"
    ELSE IF Head(x) < Head(y) THEN "Less"
    ELSE IF Head(x) > Head(y) THEN "Greater"
    ELSE Cmp(Tail(x), Tail(y))

\* str::split_once('.'): the parts before and after the first '.', as an
\* Option.
SplitOnce(x) ==
    LET dots == {i \in 1..Len(x) : x[i] = Dot}
    IN  IF dots = {} THEN None
        ELSE LET d == CHOOSE i \in dots : \A j \in dots : i <= j
             IN  Some(<<SubSeq(x, 1, d - 1), SubSeq(x, d + 1, Len(x))>>)

\* str::parse::<usize>() of a string of decimal digits.
RECURSIVE ParseUsize(_)
ParseUsize(x) ==
    IF x = <<>> THEN 0
    ELSE 10 * ParseUsize(SubSeq(x, 1, Len(x) - 1)) + (x[Len(x)] - Zero)

\* IGNORED_FIELDS with "ipv6.addr-gen-mode" before "ipv6.accept-ra".
IGNORED_FIELDS_unsorted == <<
    <<105, 112, 118, 52, 46, 97, 114, 112, 45, 110, 111, 116, 105, 102, 121>>,
        \* "ipv4.arp-notify"
    <<105, 112, 118, 52, 46, 102, 111, 114, 119, 97, 114, 100, 105, 110, 103>>,
        \* "ipv4.forwarding"
    <<105, 112, 118, 54, 46, 97, 99, 99, 101, 112, 116, 45, 100, 97, 100>>,
        \* "ipv6.accept-dad"
    <<105, 112, 118, 54, 46, 97, 100, 100, 114, 45, 103, 101, 110, 45, 109, 111, 100, 101>>,
        \* "ipv6.addr-gen-mode"
    <<105, 112, 118, 54, 46, 97, 99, 99, 101, 112, 116, 45, 114, 97>>,
        \* "ipv6.accept-ra"
    <<105, 112, 118, 54, 46, 97, 117, 116, 111, 99, 111, 110, 102>>,
        \* "ipv6.autoconf"
    <<105, 112, 118, 54, 46, 102, 111, 114, 119, 97, 114, 100, 105, 110, 103>>,
        \* "ipv6.forwarding"
    <<105, 112, 118, 54, 46, 115, 116, 97, 98, 108, 101, 45, 115, 101, 99, 114, 101, 116>>
        \* "ipv6.stable-secret"
    >>

\* reader.rs, lines 20-29: the fields that are ignored if present.
IGNORED_FIELDS == <<
    <<105, 112, 118, 52, 46, 97, 114, 112, 45, 110, 111, 116, 105, 102, 121>>,
        \* "ipv4.arp-notify"
    <<105, 112, 118, 52, 46, 102, 111, 114, 119, 97, 114, 100, 105, 110, 103>>,
        \* "ipv4.forwarding"
    <<105, 112, 118, 54, 46, 97, 99, 99, 101, 112, 116, 45, 100, 97, 100>>,
        \* "ipv6.accept-dad"
    <<105, 112, 118, 54, 46, 97, 99, 99, 101, 112, 116, 45, 114, 97>>,
        \* "ipv6.accept-ra"
    <<105, 112, 118, 54, 46, 97, 100, 100, 114, 45, 103, 101, 110, 45, 109, 111, 100, 101>>,
        \* "ipv6.addr-gen-mode"
    <<105, 112, 118, 54, 46, 97, 117, 116, 111, 99, 111, 110, 102>>,
        \* "ipv6.autoconf"
    <<105, 112, 118, 54, 46, 102, 111, 114, 119, 97, 114, 100, 105, 110, 103>>,
        \* "ipv6.forwarding"
    <<105, 112, 118, 54, 46, 115, 116, 97, 98, 108, 101, 45, 115, 101, 99, 114, 101, 116>>
        \* "ipv6.stable-secret"
    >>

\* Fields that are not in IGNORED_FIELDS: below all of them, between two of
\* them, a proper prefix of one, and above all of them.
OtherFields == <<
    <<102, 105, 114, 101, 119, 97, 108, 108>>,
        \* "firewall"
    <<105, 112, 118, 52, 46, 97, 114, 112, 45, 118, 101, 114, 105, 102, 121>>,
        \* "ipv4.arp-verify"
    <<105, 112, 118, 54, 46, 97, 99, 99, 101, 112, 116, 45, 114>>,
        \* "ipv6.accept-r"
    <<105, 112, 118, 54, 46, 112, 114, 105, 118, 97, 99, 121>>,
        \* "ipv6.privacy"
    <<119, 105, 114, 101, 108, 101, 115, 115>>
        \* "wireless"
    >>

\* slice::binary_search(&field): the halving search of the standard library;
\* Some(index) for Ok(index), None for Err.
RECURSIVE BinarySearchFrom(_, _, _, _)
BinarySearchFrom(list, x, left, right) ==
    IF left >= right THEN None
    ELSE LET mid == left + ((right - left) \div 2)
             cmp == Cmp(list[mid + 1], x)
         IN  IF cmp = "Less" THEN BinarySearchFrom(list, x, mid + 1, right)
             ELSE IF cmp = "Greater" THEN BinarySearchFrom(list, x, left, mid)
             ELSE Some(mid)

BinarySearch(list, x) == BinarySearchFrom(list, x, 0, Len(list))

\* --------------------------------------------------------- documents
\* Largest number of documents of a batch.
MaxDocs == 2
\* Largest number of field paths the deserializer leaves unconsulted in a
\* document.
MaxUnhandled == 2

\* The path serde_ignored reports for a field of the i-th interface of a
\* document: "<i>.<field>".
FieldPath(i, field) == <<Zero + i, Dot>> \o field

\* An interface of a document, as the reader sees it.
Raw(name) == [name |-> name, master |-> None]

\* A document: whether fs::read_to_string reads it, whether it parses, the
\* interfaces it holds and the field paths the deserializer did not consult.
Document(interfaces_, unhandled) ==
    [readable |-> TRUE, wellformed |-> TRUE, interfaces |-> interfaces_,
     unhandled |-> unhandled]
Unreadable == [Document(<<>>, <<>>) EXCEPT !.readable = FALSE]
Malformed == [Document(<<>>, <<>>) EXCEPT !.wellformed = FALSE]

\* The interface lists of the documents of a batch.
InterfaceLists ==
    {<<>>, <<Raw("a")>>, <<Raw("lo")>>, <<Raw("a"), Raw("lo")>>,
     <<Raw("lo"), Raw("b")>>, <<Raw("b"), Raw("a")>>}

\* The documents of a batch: unreadable, malformed, or well-formed with no
\* unconsulted field, an ignored one or an unhandled one.
BatchDocuments ==
    {Unreadable, Malformed}
    \cup {Document(l, <<>>) : l \in InterfaceLists}
    \cup {Document(l, <<FieldPath(0, f)>>) :
            l \in InterfaceLists \ {<<>>}, f \in {IGNORED_FIELDS[1], OtherFields[1]}}

\* The field paths of a document of two interfaces: every field for the
\* first interface, an ignored and an unhandled one for the second.
FieldPaths ==
    {FieldPath(0, IGNORED_FIELDS[k]) : k \in 1..Len(IGNORED_FIELDS)}
    \cup {FieldPath(0, OtherFields[k]) : k \in 1..Len(OtherFields)}
    \cup {FieldPath(1, IGNORED_FIELDS[Len(IGNORED_FIELDS)]), FieldPath(1, OtherFields[3])}

\* The documents of two interfaces with up to MaxUnhandled unconsulted fields.
FieldDocuments ==
    {Document(<<Raw("a"), Raw("b")>>, u) : u \in SeqsUpTo(FieldPaths, MaxUnhandled)}

\* ------------------------------------------------------ deserialize_xml
\* deserialize_xml, lines 72-83: the filter keeps the path of a field that the
\* binary search does not find in IGNORED_FIELDS.
IsUnhandled(e) ==
    BinarySearch(IGNORED_FIELDS, SplitOnce(e)[1][2]) = None

\* deserialize_xml, lines 73-74: a path without '.' or with an index that is
\* no interface of the document panics.
PathPanics(e, interfaces_) ==
    \/ SplitOnce(e) = None
    \/ ParseUsize(SplitOnce(e)[1][1]) >= Len(interfaces_)

\* deserialize_xml: Err for a document that does not parse; otherwise the
\* interfaces, and a warning when the filter keeps a path.
DeserializeXml(doc) ==
    IF ~doc.wellformed THEN
        [kind |-> "malformed", interfaces |-> <<>>, warning |-> FALSE]
    ELSE IF \E k \in 1..Len(doc.unhandled) :
                PathPanics(doc.unhandled[k], doc.interfaces) THEN
        [kind |-> "panic", interfaces |-> <<>>, warning |-> FALSE]
    ELSE
        [kind |-> "ok", interfaces |-> doc.interfaces,
         warning |-> SelectSeq(doc.unhandled, IsUnhandled) # <<>>]

\* read_xml_file: Err when the file cannot be read, else deserialize_xml.
ReadXmlFile(doc) ==
    IF ~doc.readable THEN
        [kind |-> "unreadable", interfaces |-> <<>>, warning |-> FALSE]
    ELSE DeserializeXml(doc)

\* ---------------------------------------------------------- read_files
\* ReadFile that goes on to the next document when one does not parse.
ReadFile_SkipsMalformed ==
    /\ pc = "read_files"
    /\ next_path <= Len(paths)
    /\ LET read_xml == ReadXmlFile(paths[next_path])
       IN  CASE read_xml.kind = "unreadable" ->
                  /\ Fail("read_document", "document")
                  /\ failed' = "document"
                  /\ UNCHANGED <<next_path, interfaces, read_warning, warned>>
             [] read_xml.kind = "malformed" ->
                  /\ next_path' = next_path + 1
                  /\ UNCHANGED <<pc, result, err, failed, interfaces, read_warning,
                                 warned>>
             [] read_xml.kind = "panic" ->
                  /\ pc' = "done"
                  /\ result' = "panic"
                  /\ err' = [stage |-> "parse_document", who |-> ""]
                  /\ UNCHANGED <<next_path, interfaces, read_warning, warned, failed>>
             [] OTHER ->
                  /\ read_warning' = (read_warning \/ read_xml.warning)
                  /\ warned' = (warned \/ read_xml.warning)
                  /\ interfaces' = interfaces \o read_xml.interfaces
                  /\ next_path' = next_path + 1
                  /\ UNCHANGED <<pc, result, err, failed>>
    /\ UNCHANGED <<paths, continue_migration, dry_run, netconfig, parents, connections,
                   origin, state, nm, loopback, live_lo, static_dns>>

\* read_files, lines 187-213, one turn of the loop: read_xml_file(path)?, the
\* first warning kept, the interfaces appended. The files of a directory are
\* the documents of paths in the order recurse_files yields them; standard
\* input (lines 126-127) is a batch of one document.
ReadFile ==
    /\ pc = "read_files"
    /\ next_path <= Len(paths)
    /\ LET read_xml == ReadXmlFile(paths[next_path])
       IN  CASE read_xml.kind = "unreadable" ->
                  /\ Fail("read_document", "document")
                  /\ failed' = "document"
                  /\ UNCHANGED <<next_path, interfaces, read_warning, warned>>
             [] read_xml.kind = "malformed" ->
                  /\ Fail("parse_document", "document")
                  /\ UNCHANGED <<next_path, interfaces, read_warning, warned, failed>>
             [] read_xml.kind = "panic" ->
                  /\ pc' = "done"
                  /\ result' = "panic"
                  /\ err' = [stage |-> "parse_document", who |-> ""]
                  /\ UNCHANGED <<next_path, interfaces, read_warning, warned, failed>>
             [] OTHER ->
                  /\ read_warning' = (read_warning \/ read_xml.warning)
                  /\ warned' = (warned \/ read_xml.warning)
                  /\ interfaces' = interfaces \o read_xml.interfaces
                  /\ next_path' = next_path + 1
                  /\ UNCHANGED <<pc, result, err, failed>>
    /\ UNCHANGED <<paths, continue_migration, dry_run, netconfig, parents, connections,
                   origin, state, nm, loopback, live_lo, static_dns>>

\* read, lines 132-171, after read_files returned Ok: the netconfig policy
\* and the netconfig DHCP policy are read when with_netconfig is set.
ReadNetconfig ==
    /\ pc = "read_files"
    /\ next_path > Len(paths)
    /\ \E with_netconfig \in BOOLEAN, nc \in {"err", "none", "some", "some_warn"},
          dhcp_ok \in BOOLEAN :
        IF with_netconfig /\ nc = "err" THEN
            /\ Fail("read_netconfig", "netconfig")
            /\ failed' = "netconfig"
            /\ UNCHANGED <<netconfig, warned>>
        ELSE IF with_netconfig /\ nc = "some_warn" /\ ~continue_migration THEN
            /\ Fail("netconfig_warning", "netconfig")
            /\ warned' = TRUE
            /\ UNCHANGED <<netconfig, failed>>
        ELSE IF with_netconfig /\ ~dhcp_ok /\ ~continue_migration THEN
            /\ Fail("read_netconfig_dhcp", "netconfig_dhcp")
            /\ failed' = "netconfig_dhcp"
            /\ UNCHANGED <<netconfig, warned>>
        ELSE
            /\ failed' = IF with_netconfig /\ ~dhcp_ok THEN "netconfig_dhcp" ELSE failed
            /\ netconfig' = IF with_netconfig /\ nc \in {"some", "some_warn"}
                            THEN Some("netconfig") ELSE None
            /\ warned' = (\/ warned
                          \/ with_netconfig /\ (nc = "some_warn" \/ ~dhcp_ok))
            /\ pc' = "retain"
            /\ UNCHANGED <<result, err>>
    /\ UNCHANGED <<paths, next_path, continue_migration, dry_run, interfaces,
                   read_warning, parents, connections, origin, state, nm, loopback,
                   live_lo, static_dns>>

\* read, lines 173-176: the loopback is filtered out and the result returned.
Retain ==
    /\ pc = "retain"
    /\ interfaces' = RetainNotLo(interfaces)
    /\ pc' = "main"
    /\ UNCHANGED <<paths, next_path, continue_migration, dry_run, netconfig,
                   read_warning, parents, connections, origin, state, nm, loopback,
                   live_lo, static_dns, failed, warned, result, err>>

\* ------------------------------------------------------------ ReaderSpec
\* read() is called with a batch of documents, or with one document of two
\* interfaces and any unconsulted fields.
ReaderInit ==
    /\ paths \in SeqsUpTo(BatchDocuments, MaxDocs) \cup {<<d>> : d \in FieldDocuments}
    /\ next_path = 1
    /\ continue_migration \in BOOLEAN
    /\ dry_run = FALSE
    /\ pc = "read_files"
    /\ interfaces = <<>>
    /\ netconfig = None
    /\ read_warning = FALSE
    /\ parents = EmptyMap
    /\ connections = <<>>
    /\ origin = <<>>
    /\ state = None
    /\ nm = [created |-> FALSE, reads |-> 0, writes |-> 0]
    /\ loopback = None
    /\ live_lo = None
    /\ static_dns = None
    /\ failed = ""
    /\ warned = FALSE
    /\ result = "running"
    /\ err = NoErr

ReaderNext ==
    \/ ReadFile
    \/ ReadNetconfig
    \/ Retain

ReaderSpec == ReaderInit /\ [][ReaderNext]_vars

\* ============================================================== claims
\* The connections that came from an interface with a master.
Children == {i \in 1..Len(connections) : origin[i].master # None}
\* The master of child i is the interface of some connection of the batch.
ParentPresent(i) == FindByInterface(connections, origin[i].master[1]) # None
\* The uuids of the connections whose interface is the master of child i.
ParentUuidsOf(i) ==
    {connections[j].uuid : j \in {k \in 1..Len(connections) :
                                    connections[k].interface = origin[i].master}}

\* C1: when update_parent_connection has returned Ok, every connection that
\* came from an interface whose master is present in the batch has the uuid
\* of a connection of that master as its controller.
C1_ControllerIsParentUuid ==
    (pc = "assemble") =>
        \A i \in Children :
            ParentPresent(i) =>
                /\ connections[i].controller # None
                /\ connections[i].controller[1] \in ParentUuidsOf(i)

\* Every interface of the batch has been mapped.
AllMapped == pc \notin {"read", "main"} /\ interfaces = <<>>

\* C2: for a connection whose master no connection of the batch carries as its
\* interface: with continue_migration the missing parent does not end the run
\* and the controller stays unset; without it the run ends in an error before
\* a NetworkState is built and before the adapter is created, read or written.
C2_MissingParent ==
    AllMapped =>
        \A i \in Children :
            ~ParentPresent(i) =>
                IF continue_migration
                THEN /\ connections[i].controller = None
                     /\ err.stage # "missing_parent"
                ELSE /\ state = None
                     /\ nm = [created |-> FALSE, reads |-> 0, writes |-> 0]
                     /\ pc = "resolve" \/ (pc = "done" /\ result = "err")

\* The errors that report a warning: the unhandled fields of a document, the
\* warnings of the netconfig parser and of the mapper, a missing parent, and
\* static DNS servers that do not parse.
WarningStages == {"unhandled_fields", "netconfig_warning", "map_warning",
                  "missing_parent", "static_dns"}

\* C3: without continue_migration a run that has emitted a warning ends in an
\* error (once the reader has returned, its caller ends the run) and write is
\* never called; with continue_migration no warning ends the run.
C3_WarningsAbort ==
    /\ (~continue_migration /\ warned) =>
          /\ nm.writes = 0
          /\ pc = "main" \/ (pc = "done" /\ result = "err")
    /\ continue_migration => err.stage \notin WarningStages

\* The adapter has not been created, read or written.
AdapterUntouched == nm = [created |-> FALSE, reads |-> 0, writes |-> 0]
\* The positions of the DNS merge, after the live state was read.
MergeStages == {"loopback", "policy", "default_dns"}
\* The run has called write: it is at its end, with Ok or write's error.
Written == pc = "done" /\ (result = "ok" \/ err.stage = "nm_write")

\* C4: write is called at most once, as the last step, and only when the
\* interfaces were all mapped, resolved and assembled, the adapter was created
\* and, with a netconfig policy, the live state was read and the loopback
\* merged; a run that ends in another error has not called write.
C4_WriteOnceLast ==
    /\ nm.writes <= 1
    /\ nm.writes = 1 =>
          /\ Written /\ ~dry_run
          /\ interfaces = <<>> /\ state # None /\ nm.created
          /\ Len(state[1]) >= Len(connections)
          /\ netconfig # None => nm.reads = 1 /\ GetConnection(state[1], "lo") # None
    /\ (pc = "done" /\ ~Written) => nm.writes = 0

\* C4 witness: a run with a netconfig policy that wrote its state.
C4_Witness ==
    /\ nm.writes = 1 /\ result = "ok" /\ netconfig # None /\ Len(connections) = 2

\* C5: in a dry run the adapter is never created, read or written and the DNS
\* merge never runs, with or without a netconfig policy; once the connections
\* are assembled the run ends with Ok.
C5_DryRunNoAdapter ==
    dry_run =>
        /\ AdapterUntouched
        /\ pc \notin MergeStages \cup {"read_live", "write"}
        /\ loopback = None /\ live_lo = None
        /\ (pc = "done" /\ state # None /\ err.stage # "add_connection")
              => result = "ok"
        /\ (pc = "finalize") => ENABLED DryRun

\* C5 witness: a dry run with a netconfig policy that ended with Ok.
C5_Witness ==
    dry_run /\ pc = "done" /\ result = "ok" /\ netconfig # None /\ state # None
    /\ Len(state[1]) = 2

\* Two connections of the list have the same id.
DuplicateIds(conns) ==
    \E i, j \in 1..Len(conns) : i # j /\ conns[i].id = conns[j].id

\* C6: once a list with two connections of the same id has been assembled,
\* the run has ended in the error of add_connection and write was not called,
\* whatever continue_migration is.
C6_DuplicateIdFails ==
    (state # None /\ DuplicateIds(connections)) =>
        /\ pc = "done" /\ result = "err" /\ err.stage = "add_connection"
        /\ nm.writes = 0

\* C6 witness: a duplicate id was assembled with continue_migration set.
C6_Witness ==
    state # None /\ DuplicateIds(connections) /\ continue_migration

\* C7: while an interface is unmapped no controller is set and neither
\* resolve nor a later stage is running; the DNS merge runs on a state that
\* holds every connection, as resolved.
C7_StageOrder ==
    /\ interfaces # <<>> =>
          /\ \A i \in 1..Len(connections) : connections[i].controller = None
          /\ pc \in {"main", "map", "done"}
          /\ state = None
    /\ (pc \in MergeStages \/ loopback # None) =>
          /\ interfaces = <<>>
          /\ state # None
          /\ Len(state[1]) >= Len(connections)
          /\ \A i \in 1..Len(connections) :
                /\ state[1][i].id = connections[i].id
                /\ state[1][i].uuid = connections[i].uuid
                /\ state[1][i].controller = connections[i].controller

\* C7 witness: the DNS merge runs on a state with a resolved controller.
C7_Witness ==
    /\ pc = "policy"
    /\ \E i \in 1..Len(connections) : connections[i].controller # None

\* The merge has not changed the state: it holds connections as assembled.
StateAsAssembled ==
    /\ Len(state[1]) <= Len(connections)
    /\ \A i \in 1..Len(state[1]) : state[1][i] = connections[i]

\* What C8 says of the order: the merge runs, and changes the state, only
\* after the one read of the live state, and write gets the merged state.
C8_Order ==
    /\ nm.reads <= 1
    /\ nm.reads = 1 => nm.created
    /\ (pc \in MergeStages \/ loopback # None) => nm.reads = 1
    /\ (state # None /\ nm.reads = 0) => StateAsAssembled
    /\ (nm.reads = 1 /\ (pc = "write" \/ Written)) =>
          /\ GetConnection(state[1], "lo") # None
          /\ state[1] = IgnoreAutoDns(state[1])

\* C8 as claimed: every run without dry_run that comes to write has read the
\* live state, before the merge, and writes after both.
C8_LiveStateAlwaysRead ==
    /\ C8_Order
    /\ (~dry_run /\ (pc = "write" \/ Written)) => nm.reads = 1

\* C8 as amended: with a netconfig policy, a run without dry_run whose adapter
\* was created reads the live state as its next step, before the merge, and
\* writes after both; without a netconfig policy the live state is never read
\* and the state is written as assembled.
C8_ReadBeforeMerge ==
    /\ C8_Order
    /\ (netconfig # None /\ nm.created /\ pc # "read_live") => nm.reads = 1
    /\ netconfig = None => (nm.reads = 0 /\ loopback = None)

\* C8 witness: the state was written after a read that found a live loopback.
C8_Witness ==
    nm.writes = 1 /\ nm.reads = 1 /\ live_lo # None /\ result = "ok"

\* C9: the defaulting step sets ignore_auto_dns on every connection other than
\* "lo" that has neither DNS priority, and leaves every other connection, and
\* every other field, as it was.
C9_IgnoreAutoDnsDefault ==
    [][pc = "default_dns" =>
        /\ state' # None /\ Len(state'[1]) = Len(state[1])
        /\ \A i \in 1..Len(state[1]) :
             LET before == state[1][i]
                 after == state'[1][i]
             IN  IF /\ before.id # "lo"
                    /\ before.dns_priority4 = None
                    /\ before.dns_priority6 = None
                 THEN after = [before EXCEPT !.ignore_auto_dns = TRUE]
                 ELSE after = before]_vars

\* C9 witness: the merged state holds a connection without a priority that
\* ignores automatic DNS, a connection with one priority that does not, and
\* a loopback that does not.
C9_Witness ==
    /\ pc = "write" /\ loopback # None
    /\ \E i, j, k \in 1..Len(state[1]) :
          /\ state[1][i].id # "lo" /\ state[1][i].dns_priority4 = None
          /\ state[1][i].dns_priority6 = None /\ state[1][i].ignore_auto_dns
          /\ state[1][j].dns_priority4 # None /\ state[1][j].dns_priority6 = None
          /\ ~state[1][j].ignore_auto_dns
          /\ state[1][k].id = "lo" /\ ~state[1][k].ignore_auto_dns

\* The connections of the list with id "lo".
Loopbacks(conns) == {i \in 1..Len(conns) : conns[i].id = "lo"}

\* The first half of C10: with a netconfig policy and no live loopback, the
\* state write gets holds exactly one loopback, with the two loopback
\* addresses and manual IPv4 and IPv6 methods.
C10_NewLoopback ==
    (nm.reads = 1 /\ live_lo = None /\ (pc = "write" \/ Written)) =>
        /\ Cardinality(Loopbacks(state[1])) = 1
        /\ \A i \in Loopbacks(state[1]) :
              /\ state[1][i].addresses = <<"127.0.0.1/8", "::1/128">>
              /\ state[1][i].method4 = "Manual"
              /\ state[1][i].method6 = "Manual"
              /\ state[1][i].config = "Loopback"

\* C10 as claimed: and with a live loopback, the loopback inserted into the
\* state is a clone of it.
C10_LoopbackIsClone ==
    /\ C10_NewLoopback
    /\ (pc = "policy" /\ live_lo # None) =>
          state[1][Len(state[1])] = live_lo[1]

\* C10 as amended: and with a live loopback, the loopback inserted into the
\* state is a clone of it but for its nameservers, which are the static DNS
\* servers or, when they do not parse, empty, and for its dns_searchlist when
\* the policy has one.
C10_LoopbackFromLive ==
    /\ C10_NewLoopback
    /\ (pc = "policy" /\ live_lo # None) =>
          \E ns \in {<<>>, <<"ns_static">>},
             sl \in {live_lo[1].dns_searchlist, <<"search_static">>} :
             state[1][Len(state[1])] =
                [live_lo[1] EXCEPT !.nameservers = ns, !.dns_searchlist = sl]

\* C10 witness: the clone of a live loopback was inserted behind two mapped
\* connections, with the static DNS servers for the live ones.
C10_Witness ==
    /\ pc = "policy" /\ live_lo # None /\ Len(state[1]) = 3
    /\ state[1][3].nameservers = <<"ns_static">>
    /\ state[1][3].dns_searchlist = <<"search_live">>

\* ------------------------------------------------------------------ C11
\* The positions after the loopback was added to the state.
AfterLoopback == {"policy", "default_dns", "write", "done"}

\* C11: when the static DNS servers do not parse, then without
\* continue_migration the run ends in the error of that parse and write is not
\* called; with continue_migration the loopback's nameservers are the empty
\* list, in the state too, whatever the live loopback carried, and the run goes
\* on to the DNS policy: it ends with Ok or in the error of a later step.
C11_StaticDnsFailure ==
    (static_dns # None /\ ~static_dns[1].ok) =>
        IF continue_migration
        THEN /\ pc \in AfterLoopback
             /\ loopback[1].nameservers = <<>>
             /\ \A i \in Loopbacks(state[1]) : state[1][i].nameservers = <<>>
             /\ Loopbacks(state[1]) # {}
             /\ pc = "done" =>
                   (result = "ok" \/ err.stage \in {"dns_policy", "nm_write"})
        ELSE /\ pc = "done" /\ result = "err"
             /\ err.stage = "static_dns"
             /\ nm.writes = 0

\* C11 witness: with continue_migration the static DNS servers did not parse,
\* the live loopback carried nameservers, and the run wrote a state whose
\* loopback has none.
C11_Witness ==
    /\ continue_migration /\ static_dns # None /\ ~static_dns[1].ok
    /\ live_lo # None /\ live_lo[1].nameservers # <<>>
    /\ pc = "done" /\ result = "ok" /\ nm.writes = 1
    /\ \E i \in Loopbacks(state[1]) : state[1][i].nameservers = <<>>

\* C11 witness of the other half: without continue_migration the parse failed
\* and the run ended before write.
C11_WitnessAbort ==
    /\ ~continue_migration /\ static_dns # None /\ ~static_dns[1].ok
    /\ pc = "done" /\ result = "err" /\ nm.writes = 0

\* ------------------------------------------------------------------ C12
\* C12: without a netconfig policy the DNS merge is skipped: once Assemble has
\* added every connection, the state holds the resolved connections as they
\* were assembled, nameservers, dns_searchlist, DNS priorities and
\* ignore_auto_dns included, and no loopback, up to and through write; the
\* static DNS servers are never parsed and no loopback is built.
C12_NoPolicyNoMerge ==
    (netconfig = None /\ state # None /\ err.stage # "add_connection") =>
        /\ state[1] = connections
        /\ Loopbacks(state[1]) = {}
        /\ loopback = None /\ live_lo = None /\ static_dns = None
        /\ pc \in {"finalize", "write", "done"}

\* C12 witness: without a netconfig policy, a state of two connections, one
\* of them with a controller, was written.
C12_Witness ==
    /\ netconfig = None /\ ~dry_run
    /\ pc = "done" /\ result = "ok" /\ nm.writes = 1
    /\ Len(state[1]) = 2
    /\ \E i \in 1..2 : state[1][i].controller # None

\* ------------------------------------------------------------------ C13
\* The error stage that reports the failure of a read or of an adapter call.
StageOfFailure ==
    [f \in {"document", "netconfig", "netconfig_dhcp", "from_system", "nm_read",
            "nm_write"} |->
        CASE f = "document" -> "read_document"
          [] f = "netconfig" -> "read_netconfig"
          [] f = "netconfig_dhcp" -> "read_netconfig_dhcp"
          [] OTHER -> f]

\* The run has ended with the error of the call that failed.
EndedByFailure ==
    /\ pc = "done" /\ result = "err"
    /\ err.stage = StageOfFailure[failed]

C13_WitnessDhcp ==
    /\ continue_migration /\ failed = "netconfig_dhcp"
    /\ pc = "done" /\ result = "ok" /\ nm.writes = 1

\* ------------------------------------------------------------------ C14
\* The interfaces of the first n documents of a batch, in the order parsed.
RECURSIVE ParsedUpTo(_, _)
ParsedUpTo(docs, n) ==
    IF n = 0 THEN <<>> ELSE ParsedUpTo(docs, n - 1) \o docs[n].interfaces

\* C14: when read has returned Ok, no interface of its list is named "lo",
\* and the list is the parsed interfaces with another name, each of them once
\* and in the order they were parsed.
C14_NoLoopbackAfterRead ==
    pc = "main" =>
        LET parsed == ParsedUpTo(paths, Len(paths))
            others == {i \in 1..Len(parsed) : parsed[i].name # "lo"}
        IN  /\ \A k \in 1..Len(interfaces) : interfaces[k].name # "lo"
            /\ Len(interfaces) = Cardinality(others)
            /\ \A i \in others :
                  interfaces[Cardinality({j \in others : j <= i})] = parsed[i]

\* C14 witness: read returned Ok for two documents with a loopback each,
\* between the two other interfaces.
C14_Witness ==
    /\ pc = "main" /\ Len(paths) = 2
    /\ ParsedUpTo(paths, 2) = <<Raw("a"), Raw("lo"), Raw("lo"), Raw("b")>>
    /\ interfaces = <<Raw("a"), Raw("b")>>

\* ------------------------------------------------------------------ C15
\* The field of a path of the model, whose index is one digit: the path
\* without the index and the '.'.
FieldOf(e) == SubSeq(e, 3, Len(e))
\* The members of IGNORED_FIELDS.
IgnoredFields == {IGNORED_FIELDS[k] : k \in 1..Len(IGNORED_FIELDS)}
\* The document has an unconsulted field that is no member of IGNORED_FIELDS.
HasUnhandled(doc) ==
    \E k \in 1..Len(doc.unhandled) : FieldOf(doc.unhandled[k]) \notin IgnoredFields

\* check_sort_of_ignored_fields: each member of IGNORED_FIELDS is at most the
\* next one, in the order of their bytes.
IgnoredFieldsSorted ==
    \A k \in 2..Len(IGNORED_FIELDS) :
        Cmp(IGNORED_FIELDS[k - 1], IGNORED_FIELDS[k]) # "Greater"
\* The binary search finds each member of IGNORED_FIELDS, at its index.
EveryMemberFound ==
    \A k \in 1..Len(IGNORED_FIELDS) :
        BinarySearch(IGNORED_FIELDS, IGNORED_FIELDS[k]) = Some(k - 1)

\* C15: IGNORED_FIELDS is in non-decreasing byte order and the binary search
\* finds each of its members; deserialize_xml sets the warning of a document
\* that parses if and only if one of its unconsulted field paths, the index
\* stripped, is no member of IGNORED_FIELDS; and so the result of the
\* documents read so far carries a warning if and only if one of them has
\* such a field.
C15_WarningIffUnhandled ==
    /\ IgnoredFieldsSorted
    /\ EveryMemberFound
    /\ \A n \in 1..Len(paths) :
          (paths[n].readable /\ paths[n].wellformed) =>
              /\ DeserializeXml(paths[n]).kind = "ok"
              /\ DeserializeXml(paths[n]).warning <=> HasUnhandled(paths[n])
    /\ (pc \in {"read_files", "retain", "main"}) =>
          (read_warning <=> \E n \in 1..(next_path - 1) : HasUnhandled(paths[n]))

\* C15 witness: read returned a warning for a document whose unconsulted
\* fields are a member of IGNORED_FIELDS and a proper prefix of that member.
C15_Witness ==
    /\ pc = "main" /\ Len(paths) = 1 /\ read_warning
    /\ paths[1].unhandled =
          <<FieldPath(0, IGNORED_FIELDS[4]), FieldPath(1, OtherFields[3])>>

\* C15 witness without a warning: the unconsulted fields of the document are
\* the last and the first member of IGNORED_FIELDS.
C15_WitnessIgnored ==
    /\ pc = "main" /\ Len(paths) = 1 /\ ~read_warning
    /\ paths[1].unhandled =
          <<FieldPath(1, IGNORED_FIELDS[8]), FieldPath(0, IGNORED_FIELDS[1])>>

\* ------------------------------------------------------------------ C16
\* C16: of a document that does not parse deserialize_xml returns an error,
\* and read_files does not get past it: read never returns Ok, so that no
\* interface of the batch is handed on, also not those of the documents read
\* before it; when read has returned, it has returned an error.
C16_MalformedFailsRead ==
    \A n \in 1..Len(paths) :
        (paths[n].readable /\ ~paths[n].wellformed) =>
            /\ DeserializeXml(paths[n]).kind = "malformed"
            /\ next_path <= n
            /\ pc \in {"read_files", "done"}
            /\ pc = "done" => result = "err"

\* C16 witness: the second document of a batch did not parse; read returned
\* the error and the interface read from the first document went nowhere.
C16_Witness ==
    /\ Len(paths) = 2 /\ paths[2] = Malformed
    /\ pc = "done" /\ result = "err" /\ err.stage = "parse_document"
    /\ next_path = 2 /\ interfaces = <<Raw("a")>>

\* ------------------------------------------------------------------ C17
\* C17: the second pass sets the controller of the connection whose id is the
\* child id of the entry: a connection with a controller has an entry of
\* parent_uuid under its own id, and carries that entry's uuid; and when the
\* resolver has returned Ok, every entry has set the controller of a
\* connection with its id; the resolver does not miss a connection whose id
\* is the child id.
C17_ControllerSetById ==
    LET puuid == ParentUuid(connections, parents)
    IN  /\ \A i \in 1..Len(connections) :
              connections[i].controller # None =>
                  /\ connections[i].id \in DOMAIN puuid
                  /\ connections[i].controller = Some(puuid[connections[i].id])
        /\ (pc = "assemble" \/ state # None) =>
              \A id \in DOMAIN puuid :
                  \E i \in 1..Len(connections) :
                      /\ connections[i].id = id
                      /\ connections[i].controller = Some(puuid[id])
        /\ (pc = "done" /\ err.stage = "missing_connection") =>
              \A i \in 1..Len(connections) : connections[i].id # err.who

\* ------------------------------------------------------------------ C18
\* The message names the interface: it carries the interface's name, or the
\* id of a connection mapped from it.
NamesInterface(who, interface) ==
    \/ who = interface.name
    \/ \E i \in 0..(MaxCons - 1) : who = interface.name \o "-" \o ToString(i)

\* C18: the run never ends in a crash; when the mapper returned warnings for
\* an interface without continue_migration, the run ended in an error whose
\* message names that interface, the first of those left to map.
C18_WarningAbortNamesInterface ==
    /\ result # "panic"
    /\ err.stage = "map_warning" =>
          /\ ~continue_migration /\ pc = "done" /\ result = "err"
          /\ NamesInterface(err.who, Head(interfaces))

\* ------------------------------------------------------------------ C19
\* The step of the resolver keeps the connections, their order and every
\* field of theirs but controller.
ResolverFrame ==
    /\ Len(connections') = Len(connections)
    /\ \A i \in 1..Len(connections) :
          [connections'[i] EXCEPT !.controller = connections[i].controller]
              = connections[i]

\* C19: update_parent_connection, whether it returns Ok or an error, changes
\* nothing of the connections but controller, and not the controller of a
\* connection whose id has no entry in parents.
C19_OnlyControllerOfChildren ==
    [][pc = "resolve" =>
          /\ ResolverFrame
          /\ \A i \in 1..Len(connections) :
                connections[i].id \notin DOMAIN parents =>
                    connections'[i].controller = connections[i].controller]_vars

\* ------------------------------------------------------------------ C20
\* The batch in another order. The connections of one interface are a block
\* of connections with the same origin; a block starts where the origin
\* changes.
BlockStarts == {i \in 1..Len(connections) : i = 1 \/ origin[i] # origin[i - 1]}
\* The first and the last connection of the k-th block.
BlockStart(k) ==
    CHOOSE i \in BlockStarts : Cardinality({j \in BlockStarts : j <= i}) = k
BlockEnd(k) ==
    IF k = Cardinality(BlockStarts) THEN Len(connections) ELSE BlockStart(k + 1) - 1
\* The orders of the blocks.
BlockOrders ==
    LET n == Cardinality(BlockStarts)
    IN  {f \in [1..n -> 1..n] : \A i, j \in 1..n : f[i] = f[j] => i = j}

\* The indices of the connections, as migrate pushes them when the first k
\* blocks of the order f are mapped.
RECURSIVE PushedUpTo(_, _)
PushedUpTo(f, k) ==
    IF k = 0 THEN <<>>
    ELSE PushedUpTo(f, k - 1)
         \o [j \in 1..(BlockEnd(f[k]) - BlockStart(f[k]) + 1) |-> BlockStart(f[k]) + j - 1]

\* The connections migrate collects for the order f: a connection's uuid is
\* its position.
ConnectionsIn(f) ==
    LET pushed == PushedUpTo(f, Cardinality(BlockStarts))
    IN  [p \in 1..Len(pushed) |-> [connections[pushed[p]] EXCEPT !.uuid = p]]

\* The parents migrate collects when the first k blocks of the order f are
\* mapped.
RECURSIVE ParentsUpTo(_, _)
ParentsUpTo(f, k) ==
    IF k = 0 THEN EmptyMap
    ELSE PushParents(ParentsUpTo(f, k - 1), origin[BlockStart(f[k])],
                     SubSeq(connections, BlockStart(f[k]), BlockEnd(f[k])))
ParentsIn(f) == ParentsUpTo(f, Cardinality(BlockStarts))

\* update_parent_connection returns Ok for these connections and parents.
ResolvesOk(conns, par) ==
    /\ MissingParents(conns, par) = {} \/ continue_migration
    /\ Unexpected(conns, ParentUuid(conns, par)) = {}
\* The connections it then leaves.
Resolved(conns, par) ==
    SetControllers(conns, ParentUuid(conns, par), DOMAIN ParentUuid(conns, par))
\* The interface of the connection that is the controller of the i-th one.
ParentInterface(conns, i) ==
    IF conns[i].controller = None THEN None
    ELSE conns[conns[i].controller[1]].interface

\* C20: the resolver returns Ok for one order of the batch if and only if it
\* does for every other, and then every connection gets a controller of the
\* same parent interface in both. The iteration order of the maps changes
\* neither: it decides only which error is returned.
C20_OrderIndependent ==
    pc = "resolve" =>
        \A f \in BlockOrders :
            LET pushed == PushedUpTo(f, Cardinality(BlockStarts))
                there == Resolved(ConnectionsIn(f), ParentsIn(f))
                here == Resolved(connections, parents)
            IN  /\ ResolvesOk(ConnectionsIn(f), ParentsIn(f))
                      = ResolvesOk(connections, parents)
                /\ ResolvesOk(connections, parents) =>
                      \A p \in 1..Len(pushed) :
                          ParentInterface(there, p) = ParentInterface(here, pushed[p])

====
